---- MODULE Spec2Model ----
(***************************************************************************)
(* Model of src/main.go: the version reconciler (MatchTag), the archive    *)
(* materializer (ImagePrepare with downloadFile / Downloader.Read), the    *)
(* command-line entry point (main, run) and the build invoker (buildImage).*)
(* A process execution starts at pc = "start" and ends at pc = "exited";   *)
(* the file system outlives it and a later execution sees what it left.    *)
(***************************************************************************)
EXTENDS Integers, Sequences, FiniteSets, TLC

VARIABLES
    pc,            \* position of the control thread
    run,           \* number of the process execution
    nargs,         \* positional arguments given: len(os.Args) - 1
    GOOS,          \* runtime.GOOS
    SourceTag,     \* MatchTag's first argument  (reconciler specification)
    DestinationTag,\* MatchTag's second argument (reconciler specification)
    MatchResult,   \* run(): MatchResult := MatchTag(OpenEulerTag, DockerHubTag)
    pwd,           \* ImagePrepare: pwd, _ := os.Getwd()
    i, j,          \* ImagePrepare: loop indices (1-based)
    cwd,           \* the process working directory
    fs,            \* the directory tree below <pwd>/openEuler
    wg,            \* counter of the package-level sync.WaitGroup
    isExist,       \* ImagePrepare: isExist
    dlTarget,      \* downloadFile: which path is being written
    body,          \* downloadFile: resp.Body as the server sends it
    Total,         \* Downloader.Total
    Current,       \* Downloader.Current
    progress,      \* Downloader.Read: the last value of Current*10000/Total
    SrcSha256,     \* ImagePrepare: SrcSha256
    DestSha256,    \* ImagePrepare: DestSha256
    tarFileName,   \* ImagePrepare: tarFileName
    exitStatus,    \* exit status of the process
    exitCause,     \* what ended the process
    usagePrinted,  \* main: the usage message was printed
    tmpTar,        \* buildImage: the file tarFile exists
    defers,        \* buildImage: stack of deferred calls
    PWD,           \* buildImage: PWD
    bdir,          \* buildImage: dir
    berr,          \* buildImage: which return was taken
    messages,      \* buildImage: len(messages)
    buildCwd,      \* history: working directory when buildImage was called
    mkdirFailed,   \* history: os.MkdirAll failed for the current pair
    nDownloads,    \* history: http.Get requests issued by this execution
    nExec,         \* history: subprocesses started by this execution
    prepared,      \* history: ImagePrepare returned in this execution
    clean,         \* history: no step of this execution has failed
    prevClean,     \* history: the previous execution's ImagePrepare returned, every step succeeding
    prevMatch      \* history: the previous execution's MatchResult

vars == <<pc, run, nargs, GOOS, SourceTag, DestinationTag, MatchResult, pwd, i, j,
          cwd, fs, wg, isExist, dlTarget, body, Total, Current, progress,
          SrcSha256, DestSha256, tarFileName, exitStatus, exitCause, usagePrinted,
          tmpTar, defers, PWD, bdir, berr, messages, buildCwd, mkdirFailed,
          nDownloads, nExec, prepared, clean, prevClean, prevMatch>>

----------------------------------------------------------------------------
(* Bounds *)

MaxLen == 3        \* longest tag list given to MatchTag in the reconciler specification
MaxRuns == 2       \* process executions in a row over the same directory tree
MaxArgs == 3       \* most positional arguments
MaxLines == 1      \* most build-log lines read
ImageSize == 4     \* bytes of a non-empty compressed-image body
SidecarShort == 10 \* bytes of a truncated checksum sidecar

(* Program constants *)

DigestLen == 64    \* ReadFile: string(content)[0:64]
WantArgs == 3      \* main: len(os.Args) != 3
ProgressScale == 10000 \* Downloader.Read: d.Current*10000/d.Total

Tags == {"20.03-lts", "22.03-lts", "22.09"}
Versions == {"22.03-lts"}
archs == <<"x86_64", "aarch64">>
GOOSValues == {"linux", "darwin"}

SeqsUpTo(S, n) == UNION {[1..k -> S] : k \in 0..n}
\* the lists an adapter can return: a directory listing or a tag listing names
\* each version at most once
Listings(S) == {q \in SeqsUpTo(S, Cardinality(S)) :
                   \A a, b \in 1..Len(q) : a # b => q[a] # q[b]}

----------------------------------------------------------------------------
(* The reconciler: SelectStringInList and MatchTag *)

\* a scan that stops before the last element of the list
RECURSIVE SelectFrom_Mut(_, _, _)
SelectFrom_Mut(k, SrcString, Destination) ==
    IF k >= Len(Destination) THEN FALSE
    ELSE IF Destination[k] = SrcString THEN TRUE
    ELSE SelectFrom_Mut(k + 1, SrcString, Destination)

\* the loop of SelectStringInList from index k on
RECURSIVE SelectFrom(_, _, _)
SelectFrom(k, SrcString, Destination) ==
    IF k > Len(Destination) THEN FALSE
    ELSE IF Destination[k] = SrcString THEN TRUE
    ELSE SelectFrom(k + 1, SrcString, Destination)

SelectStringInList(SrcString, Destination) == SelectFrom(1, SrcString, Destination)

\* the loop of MatchTag from index k on, Result being what was appended so far
RECURSIVE MatchFrom(_, _, _, _)
MatchFrom(k, Source, Destination, Result) ==
    IF k > Len(Source) THEN Result
    ELSE IF SelectStringInList(Source[k], Destination)
         THEN MatchFrom(k + 1, Source, Destination, Result)
         ELSE MatchFrom(k + 1, Source, Destination, Append(Result, Source[k]))

MatchTag(Source, Destination) == MatchFrom(1, Source, Destination, <<>>)

----------------------------------------------------------------------------
(* Paths and files *)

Root == <<>>                            \* the directory the process is started in
Dir(v, a) == <<"openEuler", v, a>>      \* filepath.Join(pwd, "openEuler", version, arch)
PairDirs == {Dir(v, archs[a]) : v \in Versions, a \in 1..Len(archs)}

Absent == [data |-> 0, size |-> 0 - 1]  \* no file at the path
Empty == [data |-> 0, size |-> 0]       \* a file of no bytes
NoDir == [dir |-> FALSE, image |-> Absent, sha |-> Absent, member |-> FALSE,
          rootfs |-> FALSE, rootfsxz |-> FALSE, dockerfile |-> FALSE]

\* the digest of a file's content, as a value of the hex strings
Sha256Hex(content) == 1000 + 10 * content.data + content.size

Payloads == {1, 2}
ImageBodies == {Empty} \cup {[data |-> p, size |-> ImageSize] : p \in Payloads}
GoodDigest == Sha256Hex([data |-> 1, size |-> ImageSize])
\* a sidecar: nothing, a cut digest, or the digest followed by the file's name
ShaBodies == {Empty, [data |-> GoodDigest, size |-> SidecarShort],
              [data |-> GoodDigest, size |-> DigestLen + SidecarShort]}
Bodies(target) == IF target = "image" THEN ImageBodies ELSE ShaBodies

CurDir == Dir(MatchResult[i], archs[j])
File(target) == IF target = "image" THEN fs[CurDir].image ELSE fs[CurDir].sha
Exists(content) == content # Absent

\* PathExists: os.Stat gives nil (true), a not-exist error (false) or another error
PathExists(content) == content # Absent

\* ReadFile: string(content)[0:64]; the slice faults on a shorter content
ReadFileFaults(content) == content.size < DigestLen
ReadFile(content) == content.data

\* rootfsFile := "openEuler-docker-rootfs." + archs[j] + ".tar": the path whose
\* existence guards the extraction is the uncompressed archive's
PathExists_rootfs == fs[CurDir].rootfs

\* a comparison that never reports a difference
ShaMismatch_Mut(src, dest) == FALSE
\* ImagePrepare: SrcSha256 != DestSha256
ShaMismatch(src, dest) == src # dest

----------------------------------------------------------------------------
(* The WaitGroup and Downloader.Read *)

WgAdd(c) == c + 1
\* a Done that is counted twice
WgDone_Mut(c) == c - 2
WgDone(c) == c - 1

Abs(x) == IF x < 0 THEN 0 - x ELSE x
\* Go's integer division truncates toward zero and faults on a zero divisor
GoDiv(a, b) == IF (a < 0) = (b < 0) THEN Abs(a) \div Abs(b) ELSE 0 - (Abs(a) \div Abs(b))
DivFaults(b) == b = 0

\* the byte counts one Read may deliver when `cur` bytes were read and `left`
\* remain: a body arrives whole or in two halves
ReadSizes(cur, left) == {n \in {left, left \div 2} : n > 0 /\ (cur = 0 \/ n = left)}

\* the file after `cur` of the body's bytes were copied into it: a cut image is
\* another content, a cut sidecar keeps its digest once DigestLen bytes are there
Written(target, b, cur) ==
    IF cur = b.size \/ (target = "sha" /\ cur >= DigestLen)
    THEN [data |-> b.data, size |-> cur]
    ELSE [data |-> 0, size |-> cur]

----------------------------------------------------------------------------
(* Initial state: a fresh directory tree, the process about to enter main *)

ProcessInit ==
    /\ pc = "start"
    /\ MatchResult = <<>> /\ pwd = Root /\ i = 1 /\ j = 1
    /\ cwd = Root /\ wg = 0 /\ isExist = FALSE
    /\ dlTarget = "image" /\ body = Empty /\ Total = 0 /\ Current = 0 /\ progress = 0
    /\ SrcSha256 = 0 /\ DestSha256 = 0 /\ tarFileName = ""
    /\ exitStatus = 0 /\ exitCause = "" /\ usagePrinted = FALSE
    /\ tmpTar = FALSE /\ defers = <<>> /\ PWD = Root /\ bdir = Root /\ berr = ""
    /\ messages = 0 /\ buildCwd = Root /\ mkdirFailed = FALSE
    /\ nDownloads = 0 /\ nExec = 0 /\ prepared = FALSE /\ clean = TRUE

Init ==
    /\ ProcessInit
    /\ run = 1
    /\ nargs \in 0..MaxArgs
    /\ GOOS \in GOOSValues
    /\ SourceTag = <<>> /\ DestinationTag = <<>>
    /\ fs = [d \in PairDirs |-> NoDir]
    /\ prevClean = FALSE /\ prevMatch = <<>>

procVars == <<run, nargs, GOOS, SourceTag, DestinationTag, prevClean, prevMatch>>
loopVars == <<MatchResult, pwd, i, j>>
dlVars == <<dlTarget, body, Total, Current, progress>>
shaVars == <<SrcSha256, DestSha256>>
buildVars == <<tmpTar, defers, PWD, bdir, berr, messages, buildCwd>>
histVars == <<mkdirFailed, nDownloads, nExec, prepared, clean>>

\* log.Fatal (status 1), a panic (status 2) or os.Exit: the process ends
Die(status, cause) ==
    /\ pc' = "exited"
    /\ exitStatus' = status
    /\ exitCause' = cause

\* the inner and outer loop increments of ImagePrepare
\* the variables declared in the loop body end with the iteration
NextPair ==
    /\ pc' = "loop"
    /\ IF j < Len(archs) THEN i' = i /\ j' = j + 1 ELSE i' = i + 1 /\ j' = 1
    /\ isExist' = FALSE /\ SrcSha256' = 0 /\ DestSha256' = 0 /\ tarFileName' = ""
    /\ mkdirFailed' = FALSE

----------------------------------------------------------------------------
(* main, run and ImagePrepare *)

\* main calls run(): the adapters' lists, MatchTag, then ImagePrepare's first line
Start ==
    /\ pc = "start"
    /\ \/ /\ Die(2, "GetDockerHubTag")
          /\ UNCHANGED <<loopVars>>
       \/ /\ \E OpenEulerTag \in Listings(Versions),
                DockerHubTag \in Listings(Versions) :
                MatchResult' = MatchTag(OpenEulerTag, DockerHubTag)
          /\ pwd' = cwd /\ i' = 1 /\ j' = 1
          /\ pc' = "loop"
          /\ UNCHANGED <<exitStatus, exitCause>>
    /\ UNCHANGED <<procVars, cwd, fs, wg, isExist, dlVars, shaVars, tarFileName,
                   usagePrinted, buildVars, histVars>>

\* the loop conditions of ImagePrepare; when they fail ImagePrepare and run return
LoopHead ==
    /\ pc = "loop"
    /\ \/ /\ i > Len(MatchResult)
          /\ prepared' = TRUE
          /\ pc' = "args"
       \/ /\ i <= Len(MatchResult)
          /\ pc' = "mkdir"
          /\ UNCHANGED prepared
    /\ UNCHANGED <<procVars, loopVars, cwd, fs, wg, isExist, dlVars, shaVars, tarFileName,
                   exitStatus, exitCause, usagePrinted, buildVars,
                   mkdirFailed, nDownloads, nExec, clean>>

\* os.MkdirAll(dir, 0766); an error is printed and the loop body goes on
MkdirAll ==
    /\ pc = "mkdir"
    /\ \/ /\ fs' = [fs EXCEPT ![CurDir].dir = TRUE]
          /\ mkdirFailed' = FALSE
          /\ UNCHANGED clean
       \/ /\ ~fs[CurDir].dir
          /\ mkdirFailed' = TRUE
          /\ clean' = FALSE
          /\ UNCHANGED fs
    /\ pc' = "stat_image"
    /\ UNCHANGED <<procVars, loopVars, cwd, wg, isExist, dlVars, shaVars, tarFileName,
                   exitStatus, exitCause, usagePrinted, buildVars,
                   nDownloads, nExec, prepared>>

\* PathExists(path) and the `if !isExist` that follows it: wg.Add(1) and the call
\* of downloadFile, or on to `next`
StatAndIssue(target, next) ==
    \/ /\ Die(2, "PathExists")
       /\ UNCHANGED <<isExist, wg, dlTarget>>
    \/ /\ isExist' = PathExists(File(target))
       /\ IF ~isExist'
          THEN /\ wg' = WgAdd(wg)
               /\ dlTarget' = target
               /\ pc' = "dl_get"
          ELSE /\ pc' = next
               /\ UNCHANGED <<wg, dlTarget>>
       /\ UNCHANGED <<exitStatus, exitCause>>

StatImage ==
    /\ pc = "stat_image"
    /\ StatAndIssue("image", "stat_sha")
    /\ UNCHANGED <<procVars, loopVars, cwd, fs, body, Total, Current, progress, shaVars,
                   tarFileName, usagePrinted, buildVars, histVars>>

StatSha ==
    /\ pc = "stat_sha"
    /\ StatAndIssue("sha", "wait")
    /\ UNCHANGED <<procVars, loopVars, cwd, fs, body, Total, Current, progress, shaVars,
                   tarFileName, usagePrinted, buildVars, histVars>>

----------------------------------------------------------------------------
(* downloadFile and Downloader.Read *)

\* http.Get(url); log.Fatalln ends the process without running the deferred calls
HttpGet ==
    /\ pc = "dl_get"
    /\ nDownloads' = nDownloads + 1
    /\ \/ /\ Die(1, "http.Get")
          /\ UNCHANGED <<body, Total>>
       \/ /\ \E b \in Bodies(dlTarget) : \E t \in {0 - 1, b.size} :
                body' = b /\ Total' = t
          /\ pc' = "dl_create"
          /\ UNCHANGED <<exitStatus, exitCause>>
    /\ UNCHANGED <<procVars, loopVars, cwd, fs, wg, isExist, dlTarget, Current, progress,
                   shaVars, tarFileName, usagePrinted, buildVars,
                   mkdirFailed, nExec, prepared, clean>>

\* os.Create(filePath); its panic unwinds through the deferred wg.Done()
CreateFile ==
    /\ pc = "dl_create"
    /\ \/ /\ wg' = WgDone(wg)
          /\ Die(2, "os.Create")
          /\ UNCHANGED <<fs, Current>>
       \/ /\ fs[CurDir].dir
          /\ fs' = IF dlTarget = "image" THEN [fs EXCEPT ![CurDir].image = Empty]
                                         ELSE [fs EXCEPT ![CurDir].sha = Empty]
          /\ Current' = 0
          /\ pc' = "dl_read"
          /\ UNCHANGED <<wg, exitStatus, exitCause>>
    /\ UNCHANGED <<procVars, loopVars, cwd, isExist, dlTarget, body, Total, progress,
                   shaVars, tarFileName, usagePrinted, buildVars, histVars>>

\* one d.Read(p) called by io.Copy, Reader.Read giving n bytes and e; then what
\* io.Copy and downloadFile do with it. downloadFile's variables end with its return.
ReadCall(n, e) ==
    IF DivFaults(Total)
    THEN /\ wg' = WgDone(wg)
         /\ Die(2, "integer divide by zero")
         /\ UNCHANGED <<fs, body, Total, Current, progress>>
    ELSE /\ fs' = IF n = 0 THEN fs
                  ELSE IF dlTarget = "image"
                  THEN [fs EXCEPT ![CurDir].image = Written(dlTarget, body, Current + n)]
                  ELSE [fs EXCEPT ![CurDir].sha = Written(dlTarget, body, Current + n)]
         /\ CASE e = "nil" -> /\ Current' = Current + n
                              /\ progress' = GoDiv(Current' * ProgressScale, Total)
                              /\ pc' = "dl_read"
                              /\ UNCHANGED <<wg, body, Total, exitStatus, exitCause>>
              [] e = "EOF" -> /\ wg' = WgDone(wg)
                              /\ body' = Empty /\ Total' = 0 /\ Current' = 0 /\ progress' = 0
                              /\ pc' = IF dlTarget = "image" THEN "stat_sha" ELSE "wait"
                              /\ UNCHANGED <<exitStatus, exitCause>>
              [] e = "err" -> /\ Current' = Current + n
                              /\ progress' = GoDiv(Current' * ProgressScale, Total)
                              /\ Die(1, "io.Copy")
                              /\ UNCHANGED <<wg, body, Total>>

DownloaderRead ==
    /\ pc = "dl_read"
    /\ \/ \E n \in ReadSizes(Current, body.size - Current) : ReadCall(n, "nil")
       \/ ReadCall(body.size - Current, "EOF")
       \/ ReadCall(0, "err")
    /\ UNCHANGED <<procVars, loopVars, cwd, isExist, dlTarget,
                   shaVars, tarFileName, usagePrinted, buildVars, histVars>>

\* wg.Wait() returns when the counter is zero
Wait ==
    /\ pc = "wait"
    /\ wg = 0
    /\ pc' = "verify"
    /\ UNCHANGED <<procVars, loopVars, cwd, fs, wg, isExist, dlVars, shaVars, tarFileName,
                   exitStatus, exitCause, usagePrinted, buildVars, histVars>>

----------------------------------------------------------------------------
(* ImagePrepare: verification and extraction *)

\* sha256encode(imagePath), ReadFile(sha256sumPath) and the comparison
Verify ==
    /\ pc = "verify"
    /\ \/ /\ Die(1, "sha256encode")
          /\ UNCHANGED shaVars
       \/ /\ Die(2, "os.ReadFile")
          /\ SrcSha256' = Sha256Hex(fs[CurDir].image)
          /\ UNCHANGED DestSha256
       \/ /\ SrcSha256' = Sha256Hex(fs[CurDir].image)
          /\ IF ReadFileFaults(fs[CurDir].sha)
             THEN /\ Die(2, "slice bounds out of range")
                  /\ UNCHANGED DestSha256
             ELSE /\ DestSha256' = ReadFile(fs[CurDir].sha)
                  /\ IF ShaMismatch(SrcSha256', DestSha256')
                     THEN Die(2, "Sha256 Sum Error.")
                     ELSE /\ pc' = "stat_rootfs"
                          /\ UNCHANGED <<exitStatus, exitCause>>
    /\ UNCHANGED <<procVars, loopVars, cwd, fs, wg, isExist, dlVars, tarFileName,
                   usagePrinted, buildVars, histVars>>

\* PathExists(rootfsPath), the platform check and `if !isExist`
StatRootfs ==
    /\ pc = "stat_rootfs"
    /\ \/ /\ Die(2, "PathExists")
          /\ UNCHANGED <<isExist, i, j, shaVars, tarFileName, mkdirFailed>>
       \/ /\ GOOS # "linux"
          /\ isExist' = PathExists_rootfs
          /\ Die(2, "Only Linux Run.")
          /\ UNCHANGED <<i, j, shaVars, tarFileName, mkdirFailed>>
       \/ /\ GOOS = "linux"
          /\ IF PathExists_rootfs
             THEN NextPair
             ELSE /\ isExist' = FALSE
                  /\ pc' = "tar"
                  /\ UNCHANGED <<i, j, shaVars, tarFileName, mkdirFailed>>
          /\ UNCHANGED <<exitStatus, exitCause>>
    /\ UNCHANGED <<procVars, MatchResult, pwd, cwd, fs, wg, dlVars,
                   usagePrinted, buildVars, nDownloads, nExec, prepared, clean>>

\* ExecCommand: the command is started; its error is printed and dropped
ExecCommand(count) == count + 1

IsPairDir(d) == d \in PairDirs

\* os.Chdir(dir), then tar -xf openEuler-docker.<arch>.tar.xz --wildcards '*.tar'
Tar ==
    /\ pc = "tar"
    /\ cwd' = IF fs[CurDir].dir THEN CurDir ELSE cwd
    /\ nExec' = ExecCommand(nExec)
    /\ \/ /\ IsPairDir(cwd') /\ Exists(fs[cwd'].image)
          /\ fs' = [fs EXCEPT ![cwd'].member = TRUE]
          /\ UNCHANGED clean
       \/ /\ clean' = FALSE
          /\ UNCHANGED fs
    /\ pc' = "ls"
    /\ UNCHANGED <<procVars, loopVars, wg, isExist, dlVars, shaVars, tarFileName,
                   exitStatus, exitCause, usagePrinted, buildVars,
                   mkdirFailed, nDownloads, prepared>>

\* ls | xargs -n1 | grep -v openEuler | grep *.tar, and arr[0] of its output
Ls ==
    /\ pc = "ls"
    /\ nExec' = ExecCommand(nExec)
    /\ tarFileName' = IF IsPairDir(cwd) /\ fs[cwd].member THEN "member.tar" ELSE ""
    /\ clean' = (clean /\ tarFileName' # "")
    /\ pc' = "mv"
    /\ UNCHANGED <<procVars, loopVars, cwd, fs, wg, isExist, dlVars, shaVars,
                   exitStatus, exitCause, usagePrinted, buildVars,
                   mkdirFailed, nDownloads, prepared>>

\* mv <tarFileName> openEuler-docker-rootfs.<arch>.tar
Mv ==
    /\ pc = "mv"
    /\ nExec' = ExecCommand(nExec)
    /\ \/ /\ tarFileName # "" /\ IsPairDir(cwd) /\ fs[cwd].member
          /\ fs' = [fs EXCEPT ![cwd].member = FALSE, ![cwd].rootfs = TRUE]
          /\ UNCHANGED clean
       \/ /\ clean' = FALSE
          /\ UNCHANGED fs
    /\ pc' = "xz"
    /\ UNCHANGED <<procVars, loopVars, cwd, wg, isExist, dlVars, shaVars, tarFileName,
                   exitStatus, exitCause, usagePrinted, buildVars,
                   mkdirFailed, nDownloads, prepared>>

\* xz -z openEuler-docker-rootfs.<arch>.tar: writes <name>.tar.xz and removes
\* <name>.tar; xz refuses when <name>.tar.xz is already there
Xz ==
    /\ pc = "xz"
    /\ nExec' = ExecCommand(nExec)
    /\ \/ /\ IsPairDir(cwd) /\ fs[cwd].rootfs /\ ~fs[cwd].rootfsxz
          /\ fs' = [fs EXCEPT ![cwd].rootfs = FALSE, ![cwd].rootfsxz = TRUE]
          /\ UNCHANGED clean
       \/ /\ clean' = FALSE
          /\ UNCHANGED fs
    /\ pc' = "cp"
    /\ UNCHANGED <<procVars, loopVars, cwd, wg, isExist, dlVars, shaVars, tarFileName,
                   exitStatus, exitCause, usagePrinted, buildVars,
                   mkdirFailed, nDownloads, prepared>>

\* cp <pwd>/Dockerfile <dir>/Dockerfile, the last statement of the loop body
Cp ==
    /\ pc = "cp"
    /\ nExec' = ExecCommand(nExec)
    /\ \/ /\ fs[CurDir].dir
          /\ fs' = [fs EXCEPT ![CurDir].dockerfile = TRUE]
          /\ UNCHANGED clean
       \/ /\ clean' = FALSE
          /\ UNCHANGED fs
    /\ NextPair
    /\ UNCHANGED <<procVars, MatchResult, pwd, cwd, wg, dlVars,
                   exitStatus, exitCause, usagePrinted, buildVars,
                   nDownloads, prepared>>

----------------------------------------------------------------------------
(* main after run(), and buildImage *)

\* a relative directory argument, resolved against the working directory
DirArgs == {Dir(v, archs[1]) : v \in Versions} \cup {<<"missing">>}
Resolve(d) == cwd \o d
DirExists(path) == path = Root \/ (IsPairDir(path) /\ fs[path].dir)

\* main: the argument count, then the call of buildImage(os.Args[1], os.Args[2])
Args ==
    /\ pc = "args"
    /\ \/ /\ nargs + 1 # WantArgs
          /\ usagePrinted' = TRUE
          /\ Die(0, "usage")
          /\ UNCHANGED <<bdir, buildCwd>>
       \/ /\ nargs + 1 = WantArgs
          /\ \E d \in DirArgs : bdir' = d
          /\ buildCwd' = cwd
          /\ pc' = "b_temp"
          /\ UNCHANGED <<usagePrinted, exitStatus, exitCause>>
    /\ UNCHANGED <<procVars, loopVars, cwd, fs, wg, isExist, dlVars, shaVars, tarFileName,
                   tmpTar, defers, PWD, berr, messages, histVars>>

\* a buildImage that does not defer os.Chdir(PWD)
Defer_Mut(stack, call) == IF call = "os.Chdir" THEN stack ELSE Append(stack, call)
\* a defer statement
Defer(stack, call) == Append(stack, call)

\* a return statement of buildImage: the deferred calls run next
Return(e) == berr' = e /\ pc' = "b_defer"

buildFrame == <<procVars, loopVars, fs, wg, isExist, dlVars, shaVars, tarFileName,
                exitStatus, exitCause, usagePrinted, bdir, buildCwd, histVars>>

\* tempFileName("docker-", ".image") and defer os.Remove(tarFile)
TempFileName ==
    /\ pc = "b_temp"
    /\ \/ /\ Return("tempFileName")
          /\ UNCHANGED defers
       \/ /\ defers' = Defer(defers, "os.Remove")
          /\ pc' = "b_tar"
          /\ UNCHANGED berr
    /\ UNCHANGED <<buildFrame, cwd, tmpTar, PWD, messages>>

\* createTar(dir, tarFile): returns nil whether or not tar ran well
CreateTar ==
    /\ pc = "b_tar"
    /\ \/ /\ DirExists(Resolve(bdir))
          /\ tmpTar' = TRUE
       \/ tmpTar' \in BOOLEAN
    /\ pc' = "b_open"
    /\ UNCHANGED <<buildFrame, cwd, defers, PWD, berr, messages>>

\* os.Open(tarFile) and defer dockerFileTarReader.Close()
OpenTar ==
    /\ pc = "b_open"
    /\ \/ /\ Return("os.Open")
          /\ UNCHANGED defers
       \/ /\ tmpTar
          /\ defers' = Defer(defers, "Reader.Close")
          /\ pc' = "b_client"
          /\ UNCHANGED berr
    /\ UNCHANGED <<buildFrame, cwd, tmpTar, PWD, messages>>

\* client.NewEnvClient(), defer cli.Close(), context.WithTimeout and defer cancel()
NewClient ==
    /\ pc = "b_client"
    /\ \/ /\ Return("NewEnvClient")
          /\ UNCHANGED defers
       \/ /\ defers' = Defer(Defer(defers, "cli.Close"), "cancel")
          /\ pc' = "b_getwd"
          /\ UNCHANGED berr
    /\ UNCHANGED <<buildFrame, cwd, tmpTar, PWD, messages>>

\* PWD, err := os.Getwd() and defer os.Chdir(PWD)
Getwd ==
    /\ pc = "b_getwd"
    /\ \/ /\ Return("os.Getwd")
          /\ UNCHANGED <<defers, PWD>>
       \/ /\ PWD' = cwd
          /\ defers' = Defer(defers, "os.Chdir")
          /\ pc' = "b_chdir"
          /\ UNCHANGED berr
    /\ UNCHANGED <<buildFrame, cwd, tmpTar, messages>>

\* os.Chdir(dir)
Chdir ==
    /\ pc = "b_chdir"
    /\ \/ /\ Return("os.Chdir")
          /\ UNCHANGED cwd
       \/ /\ DirExists(Resolve(bdir))
          /\ cwd' = Resolve(bdir)
          /\ pc' = "b_build"
          /\ UNCHANGED berr
    /\ UNCHANGED <<buildFrame, tmpTar, defers, PWD, messages>>

\* cli.ImageBuild(...) and defer resp.Body.Close()
ImageBuild ==
    /\ pc = "b_build"
    /\ \/ /\ Return("ImageBuild")
          /\ UNCHANGED defers
       \/ /\ defers' = Defer(defers, "Body.Close")
          /\ pc' = "b_read"
          /\ UNCHANGED berr
    /\ UNCHANGED <<buildFrame, cwd, tmpTar, PWD, messages>>

\* one rd.ReadLine() of the log loop
ReadLine ==
    /\ pc = "b_read"
    /\ \/ /\ messages < MaxLines
          /\ messages' = messages + 1
          /\ UNCHANGED <<pc, berr>>
       \/ /\ Return("nil")
          /\ UNCHANGED messages
       \/ /\ Return("ReadLine")
          /\ UNCHANGED messages
    /\ UNCHANGED <<buildFrame, cwd, tmpTar, defers, PWD>>

\* what a deferred call does to the temporary archive and the working directory
DeferredTmpTar(call, exists) == IF call = "os.Remove" THEN FALSE ELSE exists
DeferredCwd(call, dir) == IF call = "os.Chdir" THEN PWD ELSE dir

\* the last deferred call registered runs
RunDefer ==
    /\ pc = "b_defer"
    /\ defers # <<>>
    /\ tmpTar' = DeferredTmpTar(defers[Len(defers)], tmpTar)
    /\ cwd' = DeferredCwd(defers[Len(defers)], cwd)
    /\ defers' = SubSeq(defers, 1, Len(defers) - 1)
    /\ UNCHANGED <<buildFrame, pc, PWD, berr, messages>>

\* buildImage has returned to main: log.Fatal(err), or the messages are printed
MainEnd ==
    /\ pc = "b_defer"
    /\ defers = <<>>
    /\ IF berr # "nil" THEN Die(1, "buildImage") ELSE Die(0, "main returned")
    /\ UNCHANGED <<procVars, loopVars, cwd, fs, wg, isExist, dlVars, shaVars, tarFileName,
                   usagePrinted, buildVars, histVars>>

\* the program is started again over the directory tree the last execution left
Restart ==
    /\ pc = "exited"
    /\ run < MaxRuns
    /\ run' = run + 1
    /\ nargs' \in 0..MaxArgs
    /\ prevClean' = (prepared /\ clean)
    /\ prevMatch' = MatchResult
    /\ pc' = "start"
    /\ MatchResult' = <<>> /\ pwd' = Root /\ i' = 1 /\ j' = 1
    /\ cwd' = Root /\ wg' = 0 /\ isExist' = FALSE
    /\ dlTarget' = "image" /\ body' = Empty /\ Total' = 0 /\ Current' = 0 /\ progress' = 0
    /\ SrcSha256' = 0 /\ DestSha256' = 0 /\ tarFileName' = ""
    /\ exitStatus' = 0 /\ exitCause' = "" /\ usagePrinted' = FALSE
    /\ tmpTar' = FALSE /\ defers' = <<>> /\ PWD' = Root /\ bdir' = Root /\ berr' = ""
    /\ messages' = 0 /\ buildCwd' = Root /\ mkdirFailed' = FALSE
    /\ nDownloads' = 0 /\ nExec' = 0 /\ prepared' = FALSE /\ clean' = TRUE
    /\ UNCHANGED <<GOOS, SourceTag, DestinationTag, fs>>

Next ==
    \/ Start \/ LoopHead \/ MkdirAll \/ StatImage \/ HttpGet \/ CreateFile
    \/ DownloaderRead \/ StatSha \/ Wait \/ Verify \/ StatRootfs
    \/ Tar \/ Ls \/ Mv \/ Xz \/ Cp
    \/ Args \/ TempFileName \/ CreateTar \/ OpenTar \/ NewClient \/ Getwd \/ Chdir
    \/ ImageBuild \/ ReadLine \/ RunDefer \/ MainEnd \/ Restart

Spec == Init /\ [][Next]_vars

----------------------------------------------------------------------------
(* The reconciler alone: MatchTag applied to every pair of lists of at most  *)
(* MaxLen tags                                                               *)

InitMatch ==
    /\ ProcessInit
    /\ run = 1 /\ nargs = 0 /\ GOOS = "linux"
    /\ SourceTag \in SeqsUpTo(Tags, MaxLen)
    /\ DestinationTag \in SeqsUpTo(Tags, MaxLen)
    /\ fs = [d \in PairDirs |-> NoDir]
    /\ prevClean = FALSE /\ prevMatch = <<>>

\* run(): MatchResult := MatchTag(OpenEulerTag, DockerHubTag)
CallMatchTag ==
    /\ pc = "start"
    /\ MatchResult' = MatchTag(SourceTag, DestinationTag)
    /\ pc' = "matched"
    /\ UNCHANGED <<procVars, pwd, i, j, cwd, fs, wg, isExist, dlVars, shaVars, tarFileName,
                   exitStatus, exitCause, usagePrinted, buildVars, histVars>>

NextMatch == CallMatchTag

SpecMatch == InitMatch /\ [][NextMatch]_vars

----------------------------------------------------------------------------
(* Claims *)

Kept(t) == \A k \in 1..Len(DestinationTag) : DestinationTag[k] # t
HasDuplicate(q) == \E a, b \in 1..Len(q) : a # b /\ q[a] = q[b]

\* C1: MatchTag(source, destination) is exactly the subsequence of source made of
\* the elements equal to no element of destination, in source's order and with
\* source's duplicates; MatchTag([], B) is empty and MatchTag(A, []) is A.
TheoremC1 ==
    pc = "matched" =>
        /\ MatchResult = SelectSeq(SourceTag, Kept)
        /\ (SourceTag = <<>> => MatchResult = <<>>)
        /\ (DestinationTag = <<>> => MatchResult = SourceTag)

WitnessC1 ==
    /\ pc = "matched"
    /\ HasDuplicate(MatchResult)
    /\ Len(MatchResult) < Len(SourceTag)
    /\ DestinationTag # <<>>

ExtractPcs == {"tar", "ls", "mv", "xz", "cp"}
DownloadPcs == {"dl_get", "dl_create", "dl_read"}
BuildPcs == {"b_temp", "b_tar", "b_open", "b_client", "b_getwd", "b_chdir", "b_build",
             "b_read", "b_defer"}

\* C2: the extraction step of a pair is reached only when, in this execution, the
\* SHA-256 of the pair's compressed image equalled the first 64 characters of its
\* sidecar; a mismatch ends the process in a panic at that pair, with nothing of
\* that pair extracted, whether the files were downloaded or were already there.
TheoremC2 ==
    /\ pc \in ExtractPcs \cup {"stat_rootfs"} =>
           /\ ~ReadFileFaults(fs[CurDir].sha)
           /\ Sha256Hex(fs[CurDir].image) = ReadFile(fs[CurDir].sha)
           /\ SrcSha256 = DestSha256
    /\ exitCause = "Sha256 Sum Error." =>
           /\ pc = "exited" /\ exitStatus = 2
           /\ Sha256Hex(fs[CurDir].image) # ReadFile(fs[CurDir].sha)
           /\ tarFileName = "" /\ cwd # CurDir

WitnessC2 ==
    /\ exitCause = "Sha256 Sum Error."
    /\ run = 2 /\ nDownloads = 0 /\ j = 2

\* C3: after an execution whose ImagePrepare returned with every step succeeding,
\* a second execution with the same lists issues no download and starts no
\* tar/mv/xz/cp subprocess.
ClaimC3 ==
    (run > 1 /\ prevClean /\ pc # "start" /\ MatchResult = prevMatch) =>
        (nDownloads = 0 /\ nExec = 0)

InFlight == IF pc \in DownloadPcs THEN 1 ELSE 0

\* C4: a download of a pair's image (sidecar) is issued exactly when the file is
\* not at its path when checked; at most two downloads are pending; verification
\* starts only when every download issued has completed; the WaitGroup counter is
\* never negative and is zero when wg.Wait has returned.
TheoremC4 ==
    /\ wg >= 0 /\ wg <= 2
    /\ pc # "exited" => wg = InFlight
    /\ pc = "dl_get" => ~Exists(File(dlTarget)) /\ ~isExist
    /\ pc = "stat_sha" => Exists(fs[CurDir].image)
    /\ pc \in {"wait", "verify"} =>
           /\ Exists(fs[CurDir].image) /\ Exists(fs[CurDir].sha)
           /\ body = Empty /\ Current = 0
    /\ pc = "verify" => wg = 0

WitnessC4 ==
    /\ pc = "verify" /\ run = 1 /\ nDownloads = 2 /\ j = 1
    /\ fs[CurDir].image.size = ImageSize

Before(a, b) == a < i \/ (a = i /\ b < j)

\* C5: every pair ImagePrepare has finished without aborting has a Dockerfile in
\* its target directory.
ClaimC5 ==
    pc \notin {"start", "exited"} =>
        \A a \in 1..Len(MatchResult), b \in 1..Len(archs) :
            Before(a, b) => fs[Dir(MatchResult[a], archs[b])].dockerfile

\* C6: on every return of buildImage the temporary archive file does not exist
\* and the process working directory is the one buildImage was called in.
TheoremC6 ==
    (pc = "b_defer" /\ defers = <<>>) => (~tmpTar /\ cwd = buildCwd)

WitnessC6 ==
    /\ pc = "b_defer" /\ defers = <<>>
    /\ berr = "ReadLine" /\ messages = MaxLines

\* C7: started with a number of positional arguments other than two, the program
\* prints the usage message and exits with status 0, also when run() fails;
\* buildImage is entered only with exactly two.
ClaimC7 ==
    /\ (pc = "exited" /\ nargs # WantArgs - 1) => (usagePrinted /\ exitStatus = 0)
    /\ pc \in BuildPcs => nargs = WantArgs - 1

\* C8: when creating a pair's target directory fails the run aborts: no download
\* is issued for that pair, nothing of it is verified or extracted and no later
\* pair is processed.
ClaimC8 ==
    mkdirFailed => pc \in {"stat_image", "exited"}

\* C9: when ImagePrepare returns, the process working directory is the one
\* captured at its start.
ClaimC9 ==
    pc = "args" => cwd = pwd

\* C10: Downloader.Read never divides by zero, whatever the declared length.
ClaimC10 ==
    exitCause # "integer divide by zero"

====
